---- MODULE Spec2Model ----
(***************************************************************************)
(* The two example scripts of ai-workflows/examples:                       *)
(*   simple_agent.py      main(query, model): one agent call               *)
(*   durable_workflow.py  main(query): a DBOS workflow of two checkpointed *)
(*                        steps, do_research and summarize                 *)
(* The agent library (pydantic_ai.Agent) and the durability engine (dbos)  *)
(* are the environment: an agent call returns any text or fails, the       *)
(* process may crash while a workflow is pending, and the engine replays a *)
(* registered step from its checkpoint when the workflow is recovered.     *)
(***************************************************************************)
EXTENDS Integers, Sequences, FiniteSets, TLC

VARIABLES
    script,       \* which script the host process runs
    environ,      \* os.environ, a mapping from names to strings
    loaded,       \* the script's module body has been executed in this process
    launchLog,    \* the arguments of the dbos.launch calls of this process
    pc,           \* position of main
    query,        \* main's parameter query
    model,        \* simple main's parameter model
    agent,        \* the Agent constructed last
    result,       \* the value of the awaited agent.run
    research,     \* durable main's local research
    summary,      \* durable main's local summary
    ret,          \* the mapping main returned
    exc,          \* the exception main ended with
    inflight,     \* the agent.run calls awaiting their response
    calls,        \* history: every agent.run call issued
    stepRuns,     \* history: every execution of a step body
    curRun,       \* history: index in stepRuns of the step body being executed
    researchRun,  \* history: index in stepRuns of the run that produced research
    summaryRun,   \* history: index in stepRuns of the run that produced summary
    wfStatus,     \* engine store: status of the workflow
    wfInput,      \* engine store: the recorded input of the workflow
    checkpoints,  \* engine store: recorded step outputs, by position in the workflow
    input,        \* history: the arguments the host invoked main with
    responses,    \* history: the text every agent.run call returned
    failures,     \* history: every failure an agent.run call ended with
    crashes       \* number of process crashes so far

vars == <<script, environ, loaded, launchLog, pc, query, model, agent, result,
          research, summary, ret, exc, inflight, calls, stepRuns, curRun,
          researchRun, summaryRun, wfStatus, wfInput, checkpoints, input, responses,
          failures, crashes>>

---------------------------------------------------------------------------
(* Bounds and the inputs drawn from the environment *)

MaxCrashes == 2
MaxTokens == 1

\* Python's None and a present value
None == <<>>
Some(v) == <<v>>
Val(o) == o[1]

Queries == {"", "tla", "Summarize: tla"}
Texts == {"", "facts", "Summarize: facts"}
Errors == {"ModelHTTPError", "ConnectError"}
Urls == {"postgresql://db"}
ModelArgs == {None, Some("openai:gpt-4o"), Some("anthropic:claude-sonnet-4-20250514")}
\* os.environ as a set of <<name, value>> pairs, with and without DATABASE_URL
Environments ==
    {{<<"HOME", "/root">>}} \cup {{<<"HOME", "/root">>, <<"DATABASE_URL", u>>} : u \in Urls}
TokenCounts == 0..MaxTokens

---------------------------------------------------------------------------
(* simple_agent.py *)

DefaultModel == "anthropic:claude-sonnet-4-20250514"

\* variant: the parameter model is ignored and the default is always used
BindModelDefault(arg) == DefaultModel

\* the default of the parameter model
BindModel(arg) == IF arg = None THEN DefaultModel ELSE Val(arg)

\* Agent(model, system_prompt="You are a helpful assistant.")
SimpleAgent(m) == [model |-> m, system_prompt |-> "You are a helpful assistant."]

\* the argument of agent.run
SimplePrompt(q) == q

\* variant: the two token counts are exchanged
SimpleResultSwapped(r) ==
    [response |-> r.data,
     usage |-> [input_tokens |-> r.usage.response_tokens,
                output_tokens |-> r.usage.request_tokens]]

\* the mapping main returns
SimpleResult(r) ==
    [response |-> r.data,
     usage |-> [input_tokens |-> r.usage.request_tokens,
                output_tokens |-> r.usage.response_tokens]]

---------------------------------------------------------------------------
(* durable_workflow.py *)

\* variant: os.environ.get(key, ""), an empty string when the variable is absent
EnvGetOrEmpty(env, key) ==
    IF \E p \in env : p[1] = key
    THEN Some((CHOOSE p \in env : p[1] = key)[2])
    ELSE Some("")

\* os.environ.get(key): None when the variable is absent
EnvGet(env, key) ==
    IF \E p \in env : p[1] = key
    THEN Some((CHOOSE p \in env : p[1] = key)[2])
    ELSE None

\* the keyword arguments of dbos.launch
LaunchArgs(env) == [database_url |-> EnvGet(env, "DATABASE_URL")]

\* variant: do_research lacks its @dbos.step() decorator
IsStepOnlySummarize(fn) == fn = "summarize"

\* variant: neither function is decorated
IsStepNone(fn) == FALSE

\* the functions decorated with @dbos.step()
IsStep(fn) == fn \in {"do_research", "summarize"}

\* variant: line 43 calls do_research again
StepOfResearchTwice(site) == "do_research"

\* the function each call site of main calls
StepOf(site) == IF site = "L42" THEN "do_research" ELSE "summarize"

\* the checkpoint of each call site: "Checkpoint 1", "Checkpoint 2"
StepId(site) == IF site = "L42" THEN 1 ELSE 2

\* main's position while the step called at site awaits agent.run, while it
\* returns result.data, and after the call
RunPc(site) == IF site = "L42" THEN "L42run" ELSE "L43run"
RetPc(site) == IF site = "L42" THEN "L42ret" ELSE "L43ret"
AfterSite(site) == IF site = "L42" THEN "L43" ELSE "L45"

\* the Agent each step constructs
StepAgent(fn) ==
    IF fn = "do_research"
    THEN [model |-> "anthropic:claude-sonnet-4-20250514",
          system_prompt |-> "Research the topic thoroughly."]
    ELSE [model |-> "anthropic:claude-sonnet-4-20250514",
          system_prompt |-> "Summarize in 2-3 sentences."]

\* variant: summarize passes its argument to agent.run as it is
StepPromptNoPrefix(fn, arg) == arg

\* the argument of agent.run in each step
StepPrompt(fn, arg) == IF fn = "do_research" THEN arg ELSE "Summarize: " \o arg

\* variant: main passes its query to summarize
SummarizeArgQuery(q, r) == q

\* the argument main passes to summarize
SummarizeArg(q, r) == r

\* variant: the research and summary fields are exchanged
ResearchResultSwapped(q, r, s) == [query |-> q, research |-> s, summary |-> r]

\* the mapping main returns
ResearchResult(q, r, s) == [query |-> q, research |-> r, summary |-> s]

\* variant: do_research catches the failure of its call and returns a fallback
HandlesResearch(fn) == fn = "do_research"

\* whether fn catches the failure of the call it awaits: no function has a
\* try statement
Handles(fn) == FALSE

---------------------------------------------------------------------------
(* State after the host has started the process *)

Init ==
    /\ script \in {"simple", "durable"}
    /\ environ \in Environments
    /\ loaded = FALSE
    /\ launchLog = <<>>
    /\ pc = "idle"
    /\ query = None
    /\ model = None
    /\ agent = None
    /\ result = None
    /\ research = None
    /\ summary = None
    /\ ret = None
    /\ exc = None
    /\ inflight = {}
    /\ calls = <<>>
    /\ stepRuns = <<>>
    /\ curRun = 0
    /\ researchRun = 0
    /\ summaryRun = 0
    /\ wfStatus = "NONE"
    /\ wfInput = None
    /\ checkpoints = [i \in 1..2 |-> None]
    /\ input = None
    /\ responses = <<>>
    /\ failures = <<>>
    /\ crashes = 0

\* the function whose body awaits agent.run at position p
FnAt(p) ==
    IF p = "S14run" THEN "main"
    ELSE IF p = "L42run" THEN StepOf("L42") ELSE StepOf("L43")

\* the agent.run call issued by fn with agent a and argument text
NewCall(fn, run, a, text) ==
    [id |-> Len(calls) + 1, attempt |-> crashes + 1, fn |-> fn, run |-> run,
     agent |-> a, prompt |-> text]

---------------------------------------------------------------------------
(* The module bodies *)

\* the import of the script: durable_workflow.py calls dbos.launch
ImportModule ==
    /\ ~loaded
    /\ loaded' = TRUE
    /\ launchLog' = IF script = "durable"
                    THEN Append(launchLog, LaunchArgs(environ))
                    ELSE launchLog
    /\ UNCHANGED <<script, environ, pc, query, model, agent, result, research,
                   summary, ret, exc, inflight, calls, stepRuns, curRun,
                   researchRun, summaryRun, wfStatus, wfInput, checkpoints,
                   input, responses, failures, crashes>>

---------------------------------------------------------------------------
(* simple_agent.py: main *)

\* the host calls main(query) or main(query, model)
SimpleInvoke ==
    /\ script = "simple" /\ loaded /\ pc = "idle" /\ input = None
    /\ \E q \in Queries, m \in ModelArgs :
        /\ input' = Some([query |-> q, model |-> m])
        /\ query' = Some(q)
        /\ model' = Some(BindModel(m))
    /\ pc' = "S13"
    /\ UNCHANGED <<script, environ, loaded, launchLog, agent, result, research,
                   summary, ret, exc, inflight, calls, stepRuns, curRun,
                   researchRun, summaryRun, wfStatus, wfInput, checkpoints,
                   responses, failures, crashes>>

\* agent = Agent(model, system_prompt=...)
SimpleConstruct ==
    /\ pc = "S13"
    /\ agent' = Some(SimpleAgent(Val(model)))
    /\ pc' = "S14"
    /\ UNCHANGED <<script, environ, loaded, launchLog, query, model, result,
                   research, summary, ret, exc, inflight, calls, stepRuns, curRun,
                   researchRun, summaryRun, wfStatus, wfInput, checkpoints,
                   input, responses, failures, crashes>>

\* result = await agent.run(query): the call is issued
SimpleRun ==
    /\ pc = "S14"
    /\ LET c == NewCall("main", 0, Val(agent), SimplePrompt(Val(query))) IN
        /\ inflight' = inflight \cup {c}
        /\ calls' = Append(calls, c)
    /\ pc' = "S14run"
    /\ UNCHANGED <<script, environ, loaded, launchLog, query, model, agent, result,
                   research, summary, ret, exc, stepRuns, curRun,
                   researchRun, summaryRun, wfStatus, wfInput, checkpoints,
                   input, responses, failures, crashes>>

\* return {"response": ..., "usage": {...}}
SimpleReturn ==
    /\ pc = "S16"
    /\ ret' = Some(SimpleResult(Val(result)))
    /\ pc' = "returned"
    /\ UNCHANGED <<script, environ, loaded, launchLog, query, model, agent, result,
                   research, summary, exc, inflight, calls, stepRuns, curRun,
                   researchRun, summaryRun, wfStatus, wfInput, checkpoints,
                   input, responses, failures, crashes>>

---------------------------------------------------------------------------
(* durable_workflow.py: main, do_research, summarize *)

\* the argument main passes at each call site
SiteArg(site) ==
    IF site = "L42" THEN Val(query) ELSE SummarizeArg(Val(query), Val(research))

\* the host calls main(query): the engine records the workflow and its input
DurableInvoke ==
    /\ script = "durable" /\ loaded /\ pc = "idle" /\ wfStatus = "NONE"
    /\ \E q \in Queries :
        /\ input' = Some([query |-> q])
        /\ query' = Some(q)
        /\ wfInput' = Some(q)
    /\ wfStatus' = "PENDING"
    /\ pc' = "L42"
    /\ UNCHANGED <<script, environ, loaded, launchLog, model, agent, result,
                   research, summary, ret, exc, inflight, calls, stepRuns, curRun,
                   researchRun, summaryRun, checkpoints, responses, failures,
                   crashes>>

\* main calls a step whose output is checkpointed: the engine returns the
\* recorded output and the body does not run
ReplayStep(site) ==
    /\ pc = site
    /\ IsStep(StepOf(site)) /\ checkpoints[StepId(site)] # None
    /\ LET cp == Val(checkpoints[StepId(site)]) IN
        IF site = "L42"
        THEN /\ research' = Some(cp.output)
             /\ researchRun' = cp.run
             /\ UNCHANGED <<summary, summaryRun>>
        ELSE /\ summary' = Some(cp.output)
             /\ summaryRun' = cp.run
             /\ UNCHANGED <<research, researchRun>>
    /\ pc' = AfterSite(site)
    /\ UNCHANGED <<script, environ, loaded, launchLog, query, model, agent, result,
                   ret, exc, inflight, calls, stepRuns, curRun, wfStatus, wfInput,
                   checkpoints, input, responses, failures, crashes>>

\* main calls a step that has no checkpoint: the body constructs its Agent and
\* issues agent.run
EnterStep(site) ==
    /\ pc = site
    /\ ~(IsStep(StepOf(site)) /\ checkpoints[StepId(site)] # None)
    /\ LET fn == StepOf(site)
           arg == SiteArg(site)
           run == Len(stepRuns) + 1
           c == NewCall(fn, run, StepAgent(fn), StepPrompt(fn, arg))
       IN
        /\ stepRuns' = Append(stepRuns,
                [attempt |-> crashes + 1, site |-> site, fn |-> fn, arg |-> arg,
                 src |-> IF site = "L42" THEN 0 ELSE researchRun, out |-> None])
        /\ curRun' = run
        /\ agent' = Some(StepAgent(fn))
        /\ inflight' = inflight \cup {c}
        /\ calls' = Append(calls, c)
    /\ pc' = RunPc(site)
    /\ UNCHANGED <<script, environ, loaded, launchLog, query, model, result,
                   research, summary, ret, exc, researchRun, summaryRun, wfStatus,
                   wfInput, checkpoints, input, responses, failures, crashes>>

\* return result.data: the engine checkpoints the output of a registered step
\* and main assigns it
ReturnFromStep(site) ==
    /\ pc = RetPc(site)
    /\ LET out == Val(result).data IN
        /\ stepRuns' = [stepRuns EXCEPT ![curRun].out = Some(out)]
        /\ checkpoints' =
             IF IsStep(StepOf(site))
             THEN [checkpoints EXCEPT ![StepId(site)] =
                                          Some([output |-> out, run |-> curRun])]
             ELSE checkpoints
        /\ IF site = "L42"
           THEN /\ research' = Some(out)
                /\ researchRun' = curRun
                /\ UNCHANGED <<summary, summaryRun>>
           ELSE /\ summary' = Some(out)
                /\ summaryRun' = curRun
                /\ UNCHANGED <<research, researchRun>>
    /\ result' = None
    /\ agent' = None
    /\ curRun' = 0
    /\ pc' = AfterSite(site)
    /\ UNCHANGED <<script, environ, loaded, launchLog, query, model, ret, exc,
                   inflight, calls, wfStatus, wfInput, input, responses, failures,
                   crashes>>

\* return {"query": ..., "research": ..., "summary": ...}: the workflow ends
DurableReturn ==
    /\ pc = "L45"
    /\ ret' = Some(ResearchResult(Val(query), Val(research), Val(summary)))
    /\ wfStatus' = "SUCCESS"
    /\ pc' = "returned"
    /\ UNCHANGED <<script, environ, loaded, launchLog, query, model, agent, result,
                   research, summary, exc, inflight, calls, stepRuns, curRun,
                   researchRun, summaryRun, wfInput, checkpoints, input,
                   responses, failures, crashes>>

---------------------------------------------------------------------------
(* The environment: the agent library, the process, the engine's recovery *)

\* an awaited agent.run returns text and usage
AgentReturns ==
    /\ pc \in {"S14run", "L42run", "L43run"}
    /\ \E c \in inflight, t \in Texts, rq \in TokenCounts, rs \in TokenCounts :
        /\ inflight' = inflight \ {c}
        /\ result' = Some([data |-> t,
                           usage |-> [request_tokens |-> rq, response_tokens |-> rs]])
        /\ responses' = Append(responses, [call |-> c.id, data |-> t])
    /\ pc' = IF pc = "S14run" THEN "S16"
             ELSE IF pc = "L42run" THEN "L42ret" ELSE "L43ret"
    /\ UNCHANGED <<script, environ, loaded, launchLog, query, model, agent,
                   research, summary, ret, exc, calls, stepRuns, curRun,
                   researchRun, summaryRun, wfStatus, wfInput, checkpoints, input,
                   failures, crashes>>

\* an awaited agent.run raises: nothing catches it, main ends with it and the
\* engine records the workflow as failed
AgentFails ==
    /\ pc \in {"S14run", "L42run", "L43run"}
    /\ \E c \in inflight, e \in Errors :
        /\ inflight' = inflight \ {c}
        /\ failures' = Append(failures, [call |-> c.id, error |-> e])
        /\ IF Handles(FnAt(pc))
           THEN /\ result' = Some([data |-> "",
                                   usage |-> [request_tokens |-> 0,
                                              response_tokens |-> 0]])
                /\ pc' = IF pc = "S14run" THEN "S16"
                         ELSE IF pc = "L42run" THEN "L42ret" ELSE "L43ret"
                /\ UNCHANGED <<exc, wfStatus>>
           ELSE /\ exc' = Some(e)
                /\ pc' = "raised"
                /\ wfStatus' = IF script = "durable" THEN "ERROR" ELSE wfStatus
                /\ UNCHANGED result
    /\ UNCHANGED <<script, environ, loaded, launchLog, query, model, agent,
                   research, summary, ret, calls, stepRuns, curRun,
                   researchRun, summaryRun, wfInput, checkpoints, input,
                   responses, crashes>>

\* the process dies while the workflow is pending: everything in memory is
\* lost, the engine's store is kept
Crash ==
    /\ script = "durable" /\ loaded /\ wfStatus = "PENDING"
    /\ crashes < MaxCrashes
    /\ crashes' = crashes + 1
    /\ loaded' = FALSE
    /\ launchLog' = <<>>
    /\ pc' = "idle"
    /\ query' = None
    /\ agent' = None
    /\ result' = None
    /\ research' = None
    /\ summary' = None
    /\ inflight' = {}
    /\ curRun' = 0
    /\ researchRun' = 0
    /\ summaryRun' = 0
    /\ UNCHANGED <<script, environ, model, ret, exc, calls, stepRuns, wfStatus,
                   wfInput, checkpoints, input, responses, failures>>

\* the restarted process has launched the engine, which runs the pending
\* workflow again from its recorded input
Recover ==
    /\ script = "durable" /\ loaded /\ pc = "idle" /\ wfStatus = "PENDING"
    /\ query' = wfInput
    /\ pc' = "L42"
    /\ UNCHANGED <<script, environ, loaded, launchLog, model, agent, result,
                   research, summary, ret, exc, inflight, calls, stepRuns, curRun,
                   researchRun, summaryRun, wfStatus, wfInput, checkpoints, input,
                   responses, failures, crashes>>

---------------------------------------------------------------------------

Next ==
    \/ ImportModule
    \/ SimpleInvoke
    \/ SimpleConstruct
    \/ SimpleRun
    \/ SimpleReturn
    \/ DurableInvoke
    \/ ReplayStep("L42")
    \/ ReplayStep("L43")
    \/ EnterStep("L42")
    \/ EnterStep("L43")
    \/ ReturnFromStep("L42")
    \/ ReturnFromStep("L43")
    \/ DurableReturn
    \/ AgentReturns
    \/ AgentFails
    \/ Crash
    \/ Recover

Spec == Init /\ [][Next]_vars

\* the restarted process, main and the agent library all make progress; the
\* number of crashes is bounded
Progress ==
    \/ ImportModule
    \/ Recover
    \/ ReplayStep("L42")
    \/ ReplayStep("L43")
    \/ EnterStep("L42")
    \/ EnterStep("L43")
    \/ ReturnFromStep("L42")
    \/ ReturnFromStep("L43")
    \/ DurableReturn
    \/ SimpleConstruct
    \/ SimpleRun
    \/ SimpleReturn
    \/ AgentReturns
    \/ AgentFails

FairSpec == Spec /\ WF_vars(Progress)

---------------------------------------------------------------------------
(* Properties *)

Runs == 1..Len(stepRuns)
Prefix == "Summarize: "

\* C1: every execution of summarize's body was invoked by main with exactly
\* the text the research step produced (the output of the do_research run
\* whose result main held in research), whatever the query and that text
C1_SummarizeReceivesResearch ==
    \A i \in Runs :
        stepRuns[i].site = "L43" =>
            /\ stepRuns[i].fn = "summarize"
            /\ stepRuns[i].src \in Runs
            /\ stepRuns[stepRuns[i].src].fn = "do_research"
            /\ stepRuns[stepRuns[i].src].out = Some(stepRuns[i].arg)

\* summarize has been invoked with a research text that differs from the query
C1_Witness ==
    \E i \in Runs :
        /\ stepRuns[i].fn = "summarize"
        /\ stepRuns[i].arg = "Summarize: facts"
        /\ input = Some([query |-> "tla"])

\* C2: when the durable main has returned, the mapping has exactly the
\* fields query, research and summary, equal to the host's query, the
\* research step's output and the summarize step's output
C2_DurableMapping ==
    (script = "durable" /\ pc = "returned") =>
        /\ ret # None
        /\ DOMAIN Val(ret) = {"query", "research", "summary"}
        /\ Val(ret).query = Val(input).query
        /\ researchRun \in Runs /\ summaryRun \in Runs
        /\ stepRuns[researchRun].fn = "do_research"
        /\ stepRuns[summaryRun].fn = "summarize"
        /\ Some(Val(ret).research) = stepRuns[researchRun].out
        /\ Some(Val(ret).summary) = stepRuns[summaryRun].out

\* the durable main has returned three different texts
C2_Witness ==
    /\ script = "durable" /\ pc = "returned"
    /\ ret = Some([query |-> "tla", research |-> "facts", summary |-> ""])

\* C3: when the one-shot main has returned, response is the text of its
\* single agent.run call, input_tokens is that call's request-token count
\* and output_tokens its response-token count
C3_SimpleMapping ==
    (script = "simple" /\ pc = "returned") =>
        /\ ret # None
        /\ Len(calls) = 1 /\ Len(responses) = 1
        /\ responses[1].call = calls[1].id
        /\ DOMAIN Val(ret) = {"response", "usage"}
        /\ DOMAIN Val(ret).usage = {"input_tokens", "output_tokens"}
        /\ Val(ret).response = responses[1].data
        /\ Val(ret).response = Val(result).data
        /\ Val(ret).usage.input_tokens = Val(result).usage.request_tokens
        /\ Val(ret).usage.output_tokens = Val(result).usage.response_tokens

\* the one-shot main has returned a response whose two token counts differ
C3_Witness ==
    /\ script = "simple" /\ pc = "returned"
    /\ Val(ret).response = "facts"
    /\ Val(ret).usage.input_tokens = 0
    /\ Val(ret).usage.output_tokens = MaxTokens

\* C5: when an agent.run call has failed, main has ended with that same
\* failure and has returned no mapping, the failed call is the last call
\* issued (nothing is retried or issued in its place), and if it was the
\* research step's call then summarize has never been invoked
C5_FailurePropagates ==
    failures # <<>> =>
        /\ Len(failures) = 1
        /\ pc = "raised"
        /\ exc = Some(failures[1].error)
        /\ ret = None
        /\ calls[Len(calls)].id = failures[1].call
        /\ calls[failures[1].call].fn = "do_research" =>
               \A i \in Runs : stepRuns[i].fn # "summarize"

\* the research step's call has failed in the durable workflow
C5_Witness ==
    /\ failures # <<>>
    /\ calls[failures[1].call].fn = "do_research"
    /\ exc = Some("ConnectError")

\* C6: in an invocation without a crash at most one agent.run call is in
\* flight; the one-shot main issues one call; the durable main issues two,
\* the research step's first and the summarize step's second, the second
\* only once the first has returned
C6_SequentialCalls ==
    crashes = 0 =>
        /\ Cardinality(inflight) <= 1
        /\ script = "simple" =>
               /\ Len(calls) <= 1
               /\ \A i \in 1..Len(calls) : calls[i].fn = "main"
               /\ pc = "returned" => Len(calls) = 1
        /\ script = "durable" =>
               /\ Len(calls) <= 2 /\ Len(stepRuns) = Len(calls)
               /\ Len(calls) >= 1 => calls[1].fn = "do_research"
               /\ Len(calls) = 2 =>
                      /\ calls[2].fn = "summarize"
                      /\ calls[1] \notin inflight
                      /\ responses # <<>> /\ responses[1].call = calls[1].id
                      /\ stepRuns[1].out = Some(responses[1].data)
               /\ pc = "returned" => Len(calls) = 2 /\ Len(responses) = 2

\* the durable main has returned without a crash
C6_Witness ==
    /\ script = "durable" /\ crashes = 0 /\ pc = "returned"
    /\ Len(calls) = 2

\* the model the host supplied, or the default identifier
HostModel ==
    IF Val(input).model = None
    THEN "anthropic:claude-sonnet-4-20250514"
    ELSE Val(Val(input).model)

\* C7: every agent.run call of the one-shot main is made on an Agent built
\* from the host's model (the default identifier when the host gave none)
\* and the assistant prompt, with the host's query as its argument; every
\* call of do_research and of summarize is made on an Agent built from the
\* fixed model identifier and that step's own system prompt
C7_AgentConfiguration ==
    \A i \in 1..Len(calls) :
        LET c == calls[i] IN
        /\ c.fn \in {"main", "do_research", "summarize"}
        /\ c.fn = "main" =>
               /\ c.agent = [model |-> HostModel,
                             system_prompt |-> "You are a helpful assistant."]
               /\ c.prompt = Val(input).query
        /\ c.fn = "do_research" =>
               c.agent = [model |-> "anthropic:claude-sonnet-4-20250514",
                          system_prompt |-> "Research the topic thoroughly."]
        /\ c.fn = "summarize" =>
               c.agent = [model |-> "anthropic:claude-sonnet-4-20250514",
                          system_prompt |-> "Summarize in 2-3 sentences."]

\* the one-shot main has called an Agent of a model the host chose
C7_Witness ==
    /\ script = "simple" /\ calls # <<>>
    /\ calls[1].agent.model = "openai:gpt-4o"
    /\ calls[1].prompt = "tla"

\* the value of DATABASE_URL in the process environment, None when absent
DatabaseUrl ==
    IF \E u \in Urls : <<"DATABASE_URL", u>> \in environ
    THEN Some(CHOOSE u \in Urls : <<"DATABASE_URL", u>> \in environ)
    ELSE None

\* C8: a process running the durable script calls dbos.launch at most once,
\* with the DATABASE_URL of its environment (None when the variable is
\* absent, and then no error is raised); main and the steps run only in a
\* process that has made this call
C8_LaunchOnceFirst ==
    script = "durable" =>
        /\ Len(launchLog) <= 1
        /\ loaded => launchLog = <<[database_url |-> DatabaseUrl]>>
        /\ (pc # "idle" \/ inflight # {}) => (loaded /\ Len(launchLog) = 1)
        /\ (DatabaseUrl = None /\ failures = <<>>) => exc = None

\* the workflow has returned in a process whose environment has no DATABASE_URL
C8_Witness ==
    /\ script = "durable" /\ pc = "returned"
    /\ DatabaseUrl = None
    /\ launchLog = <<[database_url |-> None]>>

\* C9: the argument of the summarize step's agent.run call is the research
\* text with "Summarize: " put before it and nothing else changed, and the
\* research field of the returned mapping is the research text without it
C9_SummarizePrefix ==
    /\ \A i \in 1..Len(calls) :
           calls[i].fn = "summarize" =>
               LET run == stepRuns[calls[i].run]
                   r == Val(stepRuns[run.src].out)
                   p == calls[i].prompt
               IN  /\ Len(p) = Len(Prefix) + Len(r)
                   /\ p = Prefix \o r
                   /\ p # r
    /\ (script = "durable" /\ pc = "returned") =>
           \E i \in 1..Len(calls) :
               /\ calls[i].run = summaryRun
               /\ calls[i].prompt = Prefix \o Val(ret).research

\* the durable main has returned a research text that itself begins with
\* "Summarize: "
C9_Witness ==
    /\ script = "durable" /\ pc = "returned"
    /\ Val(ret).research = "Summarize: facts"
    /\ \E i \in 1..Len(calls) : calls[i].prompt = "Summarize: Summarize: facts"

\* C10: after any crashes and recoveries, the mapping returned holds the
\* query of the original invocation, and its research field is the text the
\* summarize execution that produced its summary field was invoked with,
\* which is the output of the research execution that produced it
C10_NoMixedResult ==
    (script = "durable" /\ pc = "returned") =>
        /\ Val(ret).query = Val(input).query
        /\ summaryRun \in Runs
        /\ stepRuns[summaryRun].fn = "summarize"
        /\ stepRuns[summaryRun].out = Some(Val(ret).summary)
        /\ stepRuns[summaryRun].arg = Val(ret).research
        /\ stepRuns[summaryRun].src \in Runs
        /\ stepRuns[stepRuns[summaryRun].src].out = Some(Val(ret).research)

\* main has returned in a later attempt than the one that computed the
\* summary, after the research step's body had run more than once
C10_Witness ==
    /\ script = "durable" /\ pc = "returned"
    /\ stepRuns[summaryRun].attempt < crashes + 1
    /\ Cardinality({i \in Runs : stepRuns[i].fn = "do_research"}) > 1

\* the research step's body has run to its end
ResearchCompleted ==
    \E i \in Runs : stepRuns[i].fn = "do_research" /\ stepRuns[i].out # None

\* the process has crashed with the workflow pending and the research step done
CrashedAfterResearch ==
    /\ script = "durable" /\ wfStatus = "PENDING" /\ pc = "idle"
    /\ ResearchCompleted

\* once the research step has completed, no step body other than summarize's
\* starts, and main passes line 42 with the recorded research text
NoResearchAgain ==
    ResearchCompleted =>
        /\ \A i \in 1..Len(stepRuns') :
               i > Len(stepRuns) => stepRuns'[i].fn = "summarize"
        /\ (pc = "L42" /\ pc' # "idle") =>
               /\ pc' = "L43"
               /\ \E i \in Runs : /\ stepRuns[i].fn = "do_research"
                                  /\ stepRuns[i].out = research'

\* C4 (as amended): after a crash that follows the completion of the
\* research step, the recovered workflow does not execute the research step
\* again and goes on at the summarize step, and with fair scheduling and
\* finitely many crashes it ends: it returns its mapping, or it ends with the
\* failure of the summarize step's agent call
C4_ResumesAtSummarize ==
    /\ [][NoResearchAgain]_vars
    /\ CrashedAfterResearch ~>
           (\/ pc = "returned" /\ ret # None
            \/ pc = "raised" /\ failures # <<>> /\ exc = Some(failures[1].error))

\* C4 (as stated), its final outcome: a workflow that has crashed after the
\* completion of the research step and has ended, has ended by returning a
\* result
C4_EndsWithResult ==
    (/\ script = "durable" /\ wfStatus \in {"SUCCESS", "ERROR"}
     /\ \E i \in Runs : /\ stepRuns[i].fn = "do_research"
                        /\ stepRuns[i].out # None
                        /\ stepRuns[i].attempt <= crashes)
        => (pc = "returned" /\ ret # None)

\* main has returned a summary computed in a later attempt than the research
\* text it was computed from
C4_Witness ==
    /\ script = "durable" /\ pc = "returned" /\ crashes > 0
    /\ stepRuns[researchRun].attempt < stepRuns[summaryRun].attempt
    /\ Cardinality({i \in Runs : stepRuns[i].fn = "do_research"}) = 1

====
